---- MODULE Spec2Model ----
(***************************************************************************)
(* Doctor Network Checker: the command-line tool (src/check_doctors.py)    *)
(* and the web form's /search endpoint (src/app.py).                       *)
(*                                                                         *)
(* A Python str is a sequence of one-character strings, so that strip,     *)
(* split, replace, index and lower are computed character by character.    *)
(* A float is the integer number of 1/10000 degrees: every coordinate of   *)
(* the static tables and every coordinate string drawn below has at most   *)
(* four decimals.  Python's None is the value None below; an exit code     *)
(* or a coordinate pair that is not set yet is the empty sequence.         *)
(***************************************************************************)
EXTENDS Integers, Sequences, FiniteSets, TLC

VARIABLES
  frontend,      \* "cli": check_doctors.main(), "web": app.search()
  pc,            \* position of the invocation
  doctor_input,  \* --doctors text, --file content, or the doctors parameter
  doctors,       \* the parsed Doctor sequence
  coords_arg,    \* --coords as given (None: not given, or not read yet)
  location,      \* the location string passed in (None: not given)
  geo_query,     \* the q parameter of the geocoding request issued (None: no request)
  coords,        \* <<lat, lon>> once resolved, <<>> before
  radius,        \* search radius
  city,          \* city filter (None: no filter)
  results,       \* the result bundles appended so far
  npi_requests,  \* parameters of the registry requests issued, in order
  npi_responses, \* what the registry answered to each request, in order
  error,         \* the exception that ended the invocation, [exc |-> "none"] if none
  exit_code,     \* <<n>> once the process (or the HTTP request) has ended
  output         \* "results" once the result list was emitted, "none" before

vars == <<frontend, pc, doctor_input, doctors, coords_arg, location, geo_query, coords,
          radius, city, results, npi_requests, npi_responses, error,
          exit_code, output>>

----------------------------------------------------------------------------
(* Python values *)

None == <<"None">>

NoError == [exc |-> "none", msg |-> "", arg |-> <<>>]

SetMin(S) == CHOOSE x \in S : \A y \in S : x <= y

SetMax(S) == CHOOSE x \in S : \A y \in S : y <= x

----------------------------------------------------------------------------
(* str methods *)

Whitespace == {" ", "\t", "\n"}

UpperCase == <<"A", "B", "C", "D", "E", "F", "G", "H", "I", "J", "K", "L", "M",
               "N", "O", "P", "Q", "R", "S", "T", "U", "V", "W", "X", "Y", "Z">>

LowerCase == <<"a", "b", "c", "d", "e", "f", "g", "h", "i", "j", "k", "l", "m",
               "n", "o", "p", "q", "r", "s", "t", "u", "v", "w", "x", "y", "z">>

LowerChar(c) ==
  IF \E i \in 1..26 : UpperCase[i] = c
  THEN LowerCase[CHOOSE i \in 1..26 : UpperCase[i] = c]
  ELSE c

\* s.lower()
Lower(s) == [i \in 1..Len(s) |-> LowerChar(s[i])]

\* s.strip()
Strip(s) ==
  LET keep == {i \in 1..Len(s) : s[i] \notin Whitespace}
  IN IF keep = {} THEN <<>> ELSE SubSeq(s, SetMin(keep), SetMax(keep))

\* s.find(sub) + 1: the 1-based position of the first occurrence, 0 if none
Find(s, sub) ==
  LET at == {i \in 1..(Len(s) - Len(sub) + 1) : SubSeq(s, i, i + Len(sub) - 1) = sub}
  IN IF at = {} THEN 0 ELSE SetMin(at)

\* sub in s
Contains(s, sub) == Find(s, sub) # 0

\* s[a:b] with 0-based a, b >= 0
Slice(s, a, b) ==
  LET hi == IF b > Len(s) THEN Len(s) ELSE b
  IN IF a >= hi THEN <<>> ELSE SubSeq(s, a + 1, hi)

\* s.replace(old, new), old non-empty: leftmost non-overlapping occurrences
RECURSIVE Replace(_, _, _)
Replace(s, old, new) ==
  IF Len(s) < Len(old) THEN s
  ELSE IF SubSeq(s, 1, Len(old)) = old
       THEN new \o Replace(SubSeq(s, Len(old) + 1, Len(s)), old, new)
       ELSE <<s[1]>> \o Replace(Tail(s), old, new)

\* s.split(sep) for a one-character sep
RECURSIVE Split(_, _)
Split(s, sep) ==
  LET i == Find(s, <<sep>>)
  IN IF i = 0 THEN <<s>>
     ELSE <<SubSeq(s, 1, i - 1)>> \o Split(SubSeq(s, i + 1, Len(s)), sep)

\* s.split(sep, 1)
SplitOnce(s, sep) ==
  LET i == Find(s, <<sep>>)
  IN IF i = 0 THEN <<s>>
     ELSE <<SubSeq(s, 1, i - 1), SubSeq(s, i + 1, Len(s))>>

\* s.split(): the maximal runs of non-whitespace characters
RECURSIVE SplitWhitespace(_)
SplitWhitespace(s) ==
  LET t == Strip(s)
      ws == {i \in 1..Len(t) : t[i] \in Whitespace}
  IN IF t = <<>> THEN <<>>
     ELSE IF ws = {} THEN <<t>>
     ELSE <<SubSeq(t, 1, SetMin(ws) - 1)>>
          \o SplitWhitespace(SubSeq(t, SetMin(ws) + 1, Len(t)))

\* sep.join(parts)
RECURSIVE Join(_, _)
Join(parts, sep) ==
  IF parts = <<>> THEN <<>>
  ELSE IF Len(parts) = 1 THEN parts[1]
  ELSE parts[1] \o sep \o Join(Tail(parts), sep)

\* every sequence over S of length at most n
SeqsUpTo(S, n) == UNION {[1..k -> S] : k \in 0..n}

----------------------------------------------------------------------------
(* parse_doctors *)

\* check_doctors.py: one pass of the loop body for a stripped, non-empty entry
ParseEntry(entry) ==
  IF Contains(entry, <<"(">>) /\ Contains(entry, <<")">>)
  THEN LET open == Find(entry, <<"(">>) - 1      \* entry.index("(")
           close == Find(entry, <<")">>) - 1     \* entry.index(")")
       IN [name |-> Strip(Slice(entry, 0, open)),
           specialty |-> Strip(Slice(entry, open + 1, close))]
  ELSE [name |-> entry, specialty |-> None]

\* a faulty variant of the loop: entries empty after stripping are not skipped
RECURSIVE ParseEntriesKeepingBlank(_)
ParseEntriesKeepingBlank(entries) ==
  IF entries = <<>> THEN <<>>
  ELSE <<ParseEntry(Strip(Head(entries)))>> \o ParseEntriesKeepingBlank(Tail(entries))

RECURSIVE ParseEntries(_)
ParseEntries(entries) ==
  IF entries = <<>> THEN <<>>
  ELSE LET entry == Strip(Head(entries))
       IN IF entry = <<>> THEN ParseEntries(Tail(entries))
          ELSE <<ParseEntry(entry)>> \o ParseEntries(Tail(entries))

\* a faulty variant of line 309: the entries are the lines of the text
parse_doctors_splitting_lines(doctor_input_) ==
  ParseEntries(Split(doctor_input_, "\n"))

parse_doctors(doctor_input_) == ParseEntries(Split(doctor_input_, ","))

\* app.py: the same loop, building dicts
AppParseEntry(entry) ==
  IF Contains(entry, <<"(">>) /\ Contains(entry, <<")">>)
  THEN LET open == Find(entry, <<"(">>) - 1
           close == Find(entry, <<")">>) - 1
       IN [name |-> Strip(Slice(entry, 0, open)),
           specialty |-> Strip(Slice(entry, open + 1, close))]
  ELSE [name |-> entry, specialty |-> None]

RECURSIVE AppParseEntries(_)
AppParseEntries(entries) ==
  IF entries = <<>> THEN <<>>
  ELSE LET entry == Strip(Head(entries))
       IN IF entry = <<>> THEN AppParseEntries(Tail(entries))
          ELSE <<AppParseEntry(entry)>> \o AppParseEntries(Tail(entries))

app_parse_doctors(doctor_input_) == AppParseEntries(Split(doctor_input_, ","))

----------------------------------------------------------------------------
(* float() and int() on the strings the front ends receive *)

Digits == <<"0", "1", "2", "3", "4", "5", "6", "7", "8", "9">>

IsDigit(c) == \E i \in 1..10 : Digits[i] = c

DigitValue(c) == (CHOOSE i \in 1..10 : Digits[i] = c) - 1

RECURSIVE DigitsValue(_)
DigitsValue(ds) ==
  IF ds = <<>> THEN 0
  ELSE 10 * DigitsValue(SubSeq(ds, 1, Len(ds) - 1)) + DigitValue(ds[Len(ds)])

Unsigned(t) == IF t # <<>> /\ t[1] \in {"-", "+"} THEN Tail(t) ELSE t

\* whether float(s) returns: surrounding whitespace, one optional sign, decimal
\* digits with at most one point and at least one digit (no exponent, inf, nan
\* or underscore can be spelled with the characters drawn here)
IsFloat(s) ==
  LET b == Unsigned(Strip(s))
  IN /\ \A i \in 1..Len(b) : IsDigit(b[i]) \/ b[i] = "."
     /\ Cardinality({i \in 1..Len(b) : b[i] = "."}) <= 1
     /\ \E i \in 1..Len(b) : IsDigit(b[i])

\* float(s), in 1/10000
FloatValue(s) ==
  LET t == Strip(s)
      b == Unsigned(t)
      dot == Find(b, <<".">>)
      whole == IF dot = 0 THEN b ELSE SubSeq(b, 1, dot - 1)
      frac == IF dot = 0 THEN <<>> ELSE SubSeq(b, dot + 1, Len(b))
      frac4 == Slice(frac \o <<"0", "0", "0", "0">>, 0, 4)
      magnitude == DigitsValue(whole) * 10000 + DigitsValue(frac4)
  IN IF t[1] = "-" THEN 0 - magnitude ELSE magnitude

\* whether int(s) returns
IsInt(s) ==
  LET b == Unsigned(Strip(s))
  IN b # <<>> /\ \A i \in 1..Len(b) : IsDigit(b[i])

IntValue(s) ==
  LET t == Strip(s)
  IN IF t[1] = "-" THEN 0 - DigitsValue(Unsigned(t)) ELSE DigitsValue(Unsigned(t))

----------------------------------------------------------------------------
(* Static tables *)

TEXAS_LOCATIONS ==
  {
    [key |-> <<"d", "a", "l", "l", "a", "s">>, lat |-> 327767, lon |-> -967970],
    [key |-> <<"f", "o", "r", "t", " ", "w", "o", "r", "t", "h">>, lat |-> 327555, lon |-> -973308],
    [key |-> <<"h", "o", "u", "s", "t", "o", "n">>, lat |-> 297604, lon |-> -953698],
    [key |-> <<"a", "u", "s", "t", "i", "n">>, lat |-> 302672, lon |-> -977431],
    [key |-> <<"s", "a", "n", " ", "a", "n", "t", "o", "n", "i", "o">>, lat |-> 294241, lon |-> -984936],
    [key |-> <<"p", "l", "a", "n", "o">>, lat |-> 330198, lon |-> -966989],
    [key |-> <<"a", "r", "l", "i", "n", "g", "t", "o", "n">>, lat |-> 327357, lon |-> -971081],
    [key |-> <<"i", "r", "v", "i", "n", "g">>, lat |-> 328140, lon |-> -969489],
    [key |-> <<"f", "r", "i", "s", "c", "o">>, lat |-> 331507, lon |-> -968236],
    [key |-> <<"m", "c", "k", "i", "n", "n", "e", "y">>, lat |-> 331972, lon |-> -966397],
    [key |-> <<"d", "e", "n", "t", "o", "n">>, lat |-> 332148, lon |-> -971331],
    [key |-> <<"g", "a", "r", "l", "a", "n", "d">>, lat |-> 329126, lon |-> -966389],
    [key |-> <<"r", "i", "c", "h", "a", "r", "d", "s", "o", "n">>, lat |-> 329483, lon |-> -967299],
    [key |-> <<"c", "a", "r", "r", "o", "l", "l", "t", "o", "n">>, lat |-> 329537, lon |-> -968903],
    [key |-> <<"l", "e", "w", "i", "s", "v", "i", "l", "l", "e">>, lat |-> 330462, lon |-> -969942],
    [key |-> <<"e", "l", " ", "p", "a", "s", "o">>, lat |-> 317619, lon |-> -1064850],
    [key |-> <<"c", "o", "r", "p", "u", "s", " ", "c", "h", "r", "i", "s", "t", "i">>, lat |-> 278006, lon |-> -973964],
    [key |-> <<"l", "u", "b", "b", "o", "c", "k">>, lat |-> 335779, lon |-> -1018552],
    [key |-> <<"a", "m", "a", "r", "i", "l", "l", "o">>, lat |-> 352220, lon |-> -1018313],
    [key |-> <<"w", "a", "c", "o">>, lat |-> 315493, lon |-> -971467],
    [key |-> <<"m", "i", "d", "l", "a", "n", "d">>, lat |-> 319973, lon |-> -1020779],
    [key |-> <<"o", "d", "e", "s", "s", "a">>, lat |-> 318457, lon |-> -1023676],
    [key |-> <<"b", "e", "a", "u", "m", "o", "n", "t">>, lat |-> 300802, lon |-> -941266],
    [key |-> <<"t", "y", "l", "e", "r">>, lat |-> 323513, lon |-> -953011],
    [key |-> <<"r", "o", "u", "n", "d", " ", "r", "o", "c", "k">>, lat |-> 305083, lon |-> -976789],
    [key |-> <<"s", "u", "g", "a", "r", " ", "l", "a", "n", "d">>, lat |-> 296197, lon |-> -956349],
    [key |-> <<"t", "h", "e", " ", "w", "o", "o", "d", "l", "a", "n", "d", "s">>, lat |-> 301658, lon |-> -954613],
    [key |-> <<"k", "a", "t", "y">>, lat |-> 297858, lon |-> -958245],
    [key |-> <<"p", "a", "s", "a", "d", "e", "n", "a">>, lat |-> 296911, lon |-> -952091],
    [key |-> <<"m", "e", "s", "q", "u", "i", "t", "e">>, lat |-> 327668, lon |-> -965992],
    [key |-> <<"7", "5", "2", "0", "1">>, lat |-> 327872, lon |-> -967985],
    [key |-> <<"7", "5", "2", "0", "2">>, lat |-> 327830, lon |-> -968010],
    [key |-> <<"7", "6", "1", "0", "2">>, lat |-> 327593, lon |-> -973283],
    [key |-> <<"7", "7", "0", "0", "2">>, lat |-> 297545, lon |-> -953592],
    [key |-> <<"7", "8", "2", "0", "1">>, lat |-> 294650, lon |-> -985254],
    [key |-> <<"7", "3", "3", "0", "1">>, lat |-> 303265, lon |-> -977713],
    [key |-> <<"7", "8", "7", "0", "1">>, lat |-> 302711, lon |-> -977437]
  }

APP_TEXAS_LOCATIONS ==
  {
    [key |-> <<"d", "a", "l", "l", "a", "s">>, lat |-> 327767, lon |-> -967970],
    [key |-> <<"f", "o", "r", "t", " ", "w", "o", "r", "t", "h">>, lat |-> 327555, lon |-> -973308],
    [key |-> <<"h", "o", "u", "s", "t", "o", "n">>, lat |-> 297604, lon |-> -953698],
    [key |-> <<"a", "u", "s", "t", "i", "n">>, lat |-> 302672, lon |-> -977431],
    [key |-> <<"s", "a", "n", " ", "a", "n", "t", "o", "n", "i", "o">>, lat |-> 294241, lon |-> -984936],
    [key |-> <<"p", "l", "a", "n", "o">>, lat |-> 330198, lon |-> -966989],
    [key |-> <<"a", "r", "l", "i", "n", "g", "t", "o", "n">>, lat |-> 327357, lon |-> -971081],
    [key |-> <<"i", "r", "v", "i", "n", "g">>, lat |-> 328140, lon |-> -969489],
    [key |-> <<"f", "r", "i", "s", "c", "o">>, lat |-> 331507, lon |-> -968236],
    [key |-> <<"m", "c", "k", "i", "n", "n", "e", "y">>, lat |-> 331972, lon |-> -966397],
    [key |-> <<"d", "e", "n", "t", "o", "n">>, lat |-> 332148, lon |-> -971331],
    [key |-> <<"r", "i", "c", "h", "a", "r", "d", "s", "o", "n">>, lat |-> 329483, lon |-> -967299]
  }
InTable(table, key) == \E e \in table : e.key = key

\* table[key], as the tuple (lat, lon)
TableCoords(table, key) ==
  LET e == CHOOSE e \in table : e.key = key
  IN <<e.lat, e.lon>>

Str_dallas == <<"d", "a", "l", "l", "a", "s">>

----------------------------------------------------------------------------
(* geocode_location (check_doctors.py) *)

\* a faulty variant of lines 97-100: the location is not lower-cased
GeocodeNormalizeCaseSensitive(loc) ==
  LET a == Strip(loc)
      b == Replace(Replace(Replace(a, <<",", " ", "t", "x">>, <<>>),
                           <<",", "t", "x">>, <<>>),
                   <<" ", "t", "x">>, <<>>)
      c == Replace(Replace(Replace(b, <<",", " ", "t", "e", "x", "a", "s">>, <<>>),
                           <<",", "t", "e", "x", "a", "s">>, <<>>),
                   <<" ", "t", "e", "x", "a", "s">>, <<>>)
  IN Strip(c)

\* lines 97-100: loc_lower
GeocodeNormalize(loc) ==
  LET a == Strip(Lower(loc))
      b == Replace(Replace(Replace(a, <<",", " ", "t", "x">>, <<>>),
                           <<",", "t", "x">>, <<>>),
                   <<" ", "t", "x">>, <<>>)
      c == Replace(Replace(Replace(b, <<",", " ", "t", "e", "x", "a", "s">>, <<>>),
                           <<",", "t", "e", "x", "a", "s">>, <<>>),
                   <<" ", "t", "e", "x", "a", "s">>, <<>>)
  IN Strip(c)

\* lines 105-106: the location as rebound before the request
GeocodeQuery(loc) ==
  IF /\ ~Contains(Lower(loc), <<"t", "x">>)
     /\ ~Contains(Lower(loc), <<"t", "e", "x", "a", "s">>)
  THEN loc \o <<",", " ", "T", "X">>
  ELSE loc

\* line 121: the ValueError raised when nothing was returned
CouldNotGeocode(query) ==
  [exc |-> "ValueError", msg |-> "Could not geocode", arg |-> query]

\* What the geocoding service can answer.  A transport failure raises a
\* requests.RequestException (timeout, connection error, or raise_for_status on
\* a non-2xx status); otherwise body is the decoded JSON: a list of places,
\* each with its "lat" and "lon" strings (None: the key is missing).
GeoFailures == {"timeout", "connection_error", "http_error"}

\* lines 112-121, for the response `resp` to the request for `query`
GeocodeResult(query, resp) ==
  IF resp.kind \in GeoFailures
  THEN [ret |-> "raise", value |-> <<>>, error |-> CouldNotGeocode(query)]
  ELSE IF resp.body = <<>>
  THEN [ret |-> "raise", value |-> <<>>, error |-> CouldNotGeocode(query)]
  ELSE LET first == resp.body[1]
       IN IF first.lat = None
          THEN [ret |-> "raise", value |-> <<>>,
                error |-> [exc |-> "KeyError", msg |-> "lat", arg |-> <<>>]]
          ELSE IF ~IsFloat(first.lat)
          THEN [ret |-> "raise", value |-> <<>>,
                error |-> [exc |-> "ValueError",
                           msg |-> "could not convert string to float",
                           arg |-> first.lat]]
          ELSE IF first.lon = None
          THEN [ret |-> "raise", value |-> <<>>,
                error |-> [exc |-> "KeyError", msg |-> "lon", arg |-> <<>>]]
          ELSE IF ~IsFloat(first.lon)
          THEN [ret |-> "raise", value |-> <<>>,
                error |-> [exc |-> "ValueError",
                           msg |-> "could not convert string to float",
                           arg |-> first.lon]]
          ELSE [ret |-> "return",
                value |-> <<FloatValue(first.lat), FloatValue(first.lon)>>,
                error |-> NoError]

BCBSTX_SEARCH_URLS ==
  {
    [key |-> "blue_advantage_hmo", name |-> "Blue Advantage HMO",
     url |-> <<"https://my.providerfinderonline.com/search/name/",
              "{query}",
              "?ci=tx-blueadvantage-retail&network_id=1000128&geo_location=",
              "{lat}",
              ",",
              "{lon}",
              "&locale=en&corp_code=TX&radius=",
              "{radius}">>],
    [key |-> "my_blue_health", name |-> "My Blue Health",
     url |-> <<"https://my.providerfinderonline.com/search/name/",
              "{query}",
              "?ci=tx-myblue-health&network_id=240000127&geo_location=",
              "{lat}",
              ",",
              "{lon}",
              "&locale=en&corp_code=TX&radius=",
              "{radius}">>]
  }

APP_BCBSTX_SEARCH_URLS ==
  {
    [key |-> "blue_advantage_hmo", name |-> "Blue Advantage HMO",
     url |-> <<"https://my.providerfinderonline.com/search/name/",
              "{query}",
              "?ci=tx-blueadvantage-retail&network_id=1000128&geo_location=",
              "{lat}",
              ",",
              "{lon}",
              "&locale=en&corp_code=TX&radius=",
              "{radius}">>],
    [key |-> "my_blue_health", name |-> "My Blue Health",
     url |-> <<"https://my.providerfinderonline.com/search/name/",
              "{query}",
              "?ci=tx-myblue-health&network_id=240000127&geo_location=",
              "{lat}",
              ",",
              "{lon}",
              "&locale=en&corp_code=TX&radius=",
              "{radius}">>]
  }

UHC_SEARCH_URLS ==
  {
    [key |-> "tx_individual_exchange", name |-> "UHC TX Individual Exchange",
     url |-> "https://connect.werally.com/guest/eyJwbGFuTmFtZSI6IlRYIEluZGl2aWR1YWwgRXhjaGFuZ2UgQmVuZWZpdCBQbGFuIiwiZGVsc3lzIjoiOTA4IiwiY292ZXJhZ2VUeXBlIjoibWVkaWNhbCIsInBhcnRuZXJJZCI6InVoYyIsImxhbmd1YWdlIjoiZW4iLCJzaG93Q29zdHMiOnRydWUsImZpcHNDb2RlIjoiNDgifQMQFY_1U6GK3dWzJO0xysxZD0H-Ei_AJ0Wm_n0zlgcUI?planYear=2026"],
    [key |-> "tx_kelsey_seybold", name |-> "UHC TX Kelsey-Seybold",
     url |-> "https://connect.werally.com/guest/eyJwbGFuTmFtZSI6IlRYIEtlbHNleS1TZXlib2xkIEluZGl2aWR1YWwgRXhjaGFuZ2UgQmVuZWZpdCBQbGFuIiwiZGVsc3lzIjoiOTMzIiwiY292ZXJhZ2VUeXBlIjoibWVkaWNhbCIsInBhcnRuZXJJZCI6InVoYyIsImxhbmd1YWdlIjoiZW4iLCJzaG93Q29zdHMiOnRydWUsImZpcHNDb2RlIjoiNDgifQXmvT5Dh8azZlM00ptmfLp0BrlP0yAn-7TQUdErUzIbs?planYear=2026"],
    [key |-> "tx_sanitas_anchor", name |-> "UHC TX Sanitas Anchor",
     url |-> "https://connect.werally.com/guest/eyJwbGFuTmFtZSI6IlRYIFNhbml0YXMgQW5jaG9yIEluZGl2aWR1YWwgRXhjaGFuZ2UgQmVuZWZpdCIsImRlbHN5cyI6Ijk0NiIsImNvdmVyYWdlVHlwZSI6Im1lZGljYWwiLCJwYXJ0bmVySWQiOiJ1aGMuZXhjaGFuZ2UiLCJsYW5ndWFnZSI6ImVuIiwic2hvd0Nvc3RzIjp0cnVlLCJmaXBzQ29kZSI6IjQ4In0B_6Q323L9wHzkAf22cjU43lZYKLoyfNzTYw8nrMBL04?planYear=2026"]
  }
----------------------------------------------------------------------------
(* search_npi *)

\* d.get(key, default) for a key whose absence is None
GetOr(v, default) == IF v = None THEN default ELSE v

\* `if x:` for an optional string
Truthy(s) == s # None /\ s # <<>>

\* a faulty variant of lines 135-136: first, last = ... (the parts swapped)
SplitNameFirstBeforeComma(name) ==
  LET name_parts == Strip(Replace(Replace(name, <<"D", "r", ".">>, <<>>),
                                  <<"D", "r">>, <<>>))
  IN IF Contains(name_parts, <<",">>)
     THEN LET p == SplitOnce(name_parts, ",")
          IN [first |-> Strip(p[1]), last |-> Strip(p[2])]
     ELSE LET parts == SplitWhitespace(name_parts)
          IN IF Len(parts) >= 2
             THEN [first |-> parts[1], last |-> Join(Tail(parts), <<" ">>)]
             ELSE [first |-> <<>>, last |-> name_parts]

\* lines 133-144: the "Last, First" / "First Last" split
SplitName(name) ==
  LET name_parts == Strip(Replace(Replace(name, <<"D", "r", ".">>, <<>>),
                                  <<"D", "r">>, <<>>))
  IN IF Contains(name_parts, <<",">>)
     THEN LET p == SplitOnce(name_parts, ",")
          IN [first |-> Strip(p[2]), last |-> Strip(p[1])]
     ELSE LET parts == SplitWhitespace(name_parts)
          IN IF Len(parts) >= 2
             THEN [first |-> parts[1], last |-> Join(Tail(parts), <<" ">>)]
             ELSE [first |-> <<>>, last |-> name_parts]

NPI_LIMIT == 10

\* lines 146-158: the query parameters (None: the key is not sent)
NpiParams(name, state, city_) ==
  LET n == SplitName(name)
  IN [version |-> "2.1",
      limit |-> NPI_LIMIT,
      enumeration_type |-> "NPI-1",
      state |-> state,
      first_name |-> IF n.first # <<>> THEN n.first ELSE None,
      last_name |-> IF n.last # <<>> THEN n.last ELSE None,
      city |-> IF Truthy(city_) THEN city_ ELSE None]

EmptyDict == [address_purpose |-> "", address_1 |-> None, city |-> None,
              state |-> None, postal_code |-> None, telephone_number |-> None]

\* lines 172-175
PracticeAddr(addresses) ==
  LET loc == {i \in 1..Len(addresses) : addresses[i].address_purpose = "LOCATION"}
  IN IF loc # {} THEN addresses[SetMin(loc)]
     ELSE IF addresses # <<>> THEN addresses[1]
     ELSE EmptyDict

\* lines 178-183: specialty_name
SpecialtyName(taxonomies) ==
  LET prim == {i \in 1..Len(taxonomies) : taxonomies[i].primary}
      primary_tax == IF prim # {} THEN taxonomies[SetMin(prim)]
                     ELSE IF taxonomies # <<>> THEN taxonomies[1]
                     ELSE [primary |-> FALSE, desc |-> None]
  IN GetOr(primary_tax.desc, <<"U", "n", "k", "n", "o", "w", "n">>)

\* a faulty variant of lines 186-188: the comparison is case-sensitive
PassesFilterCaseSensitive(specialty, specialty_name) ==
  ~Truthy(specialty) \/ Contains(specialty_name, specialty)

\* lines 186-188: whether the record is kept
PassesFilter(specialty, specialty_name) ==
  ~Truthy(specialty) \/ Contains(Lower(specialty_name), Lower(specialty))

FullName(basic) ==
  Strip(GetOr(basic.first_name, <<>>) \o <<" ">> \o GetOr(basic.last_name, <<>>))

\* lines 190-202: the NPIResult of one record
NPIResult(r) ==
  LET practice_addr == PracticeAddr(r.addresses)
  IN [npi |-> GetOr(r.number, <<>>),
      name |-> FullName(r.basic),
      credential |-> GetOr(r.basic.credential, <<>>),
      specialty |-> SpecialtyName(r.taxonomies),
      address |-> GetOr(practice_addr.address_1, <<>>),
      city |-> GetOr(practice_addr.city, <<>>),
      state |-> GetOr(practice_addr.state, <<>>),
      zip_code |-> Slice(GetOr(practice_addr.postal_code, <<>>), 0, 5),
      phone |-> GetOr(practice_addr.telephone_number, <<>>)]

\* lines 165-204: the loop over data["results"]
RECURSIVE NpiResults(_, _)
NpiResults(records, specialty) ==
  IF records = <<>> THEN <<>>
  ELSE LET r == Head(records)
       IN IF PassesFilter(specialty, SpecialtyName(r.taxonomies))
          THEN <<NPIResult(r)>> \o NpiResults(Tail(records), specialty)
          ELSE NpiResults(Tail(records), specialty)

\* What the registry can answer.  A transport failure raises a
\* requests.RequestException; otherwise data is the decoded JSON: an object
\* with its "results" list, or (shape "array") a JSON value without .get.
NpiFailures == {"timeout", "connection_error", "http_error"}

\* a faulty variant of search_npi: the except clause catches the HTTPError
\* of raise_for_status only, so a timeout or a connection error propagates
search_npi_catching_http_only(name, state, city_, specialty, resp) ==
  IF resp.kind = "http_error"
  THEN [ret |-> "return", value |-> <<>>, error |-> NoError]
  ELSE IF resp.kind \in NpiFailures
  THEN [ret |-> "raise", value |-> <<>>,
        error |-> [exc |-> "RequestException", msg |-> resp.kind, arg |-> <<>>]]
  ELSE IF resp.data.shape # "object"
  THEN [ret |-> "raise", value |-> <<>>,
        error |-> [exc |-> "AttributeError", msg |-> "get", arg |-> <<>>]]
  ELSE [ret |-> "return", value |-> NpiResults(resp.data.results, specialty),
        error |-> NoError]

\* lines 160-208, for the response `resp`
search_npi(name, state, city_, specialty, resp) ==
  IF resp.kind \in NpiFailures
  THEN [ret |-> "return", value |-> <<>>, error |-> NoError]
  ELSE IF resp.data.shape # "object"
  THEN [ret |-> "raise", value |-> <<>>,
        error |-> [exc |-> "AttributeError", msg |-> "get", arg |-> <<>>]]
  ELSE [ret |-> "return", value |-> NpiResults(resp.data.results, specialty),
        error |-> NoError]

\* app.py lines 502-509: the dict of one record
AppNpiDict(r) ==
  LET practice_addr == PracticeAddr(r.addresses)
  IN [npi |-> GetOr(r.number, <<>>),
      name |-> FullName(r.basic),
      credential |-> GetOr(r.basic.credential, <<>>),
      specialty |-> SpecialtyName(r.taxonomies),
      location |-> GetOr(practice_addr.city, <<>>) \o <<",", " ">>
                   \o GetOr(practice_addr.state, <<>>) \o <<" ">>
                   \o Slice(GetOr(practice_addr.postal_code, <<>>), 0, 5),
      phone |-> GetOr(practice_addr.telephone_number, <<>>)]

RECURSIVE AppNpiResults(_, _)
AppNpiResults(records, specialty) ==
  IF records = <<>> THEN <<>>
  ELSE LET r == Head(records)
       IN IF PassesFilter(specialty, SpecialtyName(r.taxonomies))
          THEN <<AppNpiDict(r)>> \o AppNpiResults(Tail(records), specialty)
          ELSE AppNpiResults(Tail(records), specialty)

\* app.py lines 476-513: every exception gives []
app_search_npi(name, state, city_, specialty, resp) ==
  IF resp.kind \in NpiFailures
  THEN [ret |-> "return", value |-> <<>>, error |-> NoError]
  ELSE IF resp.data.shape # "object"
  THEN [ret |-> "return", value |-> <<>>, error |-> NoError]
  ELSE [ret |-> "return", value |-> AppNpiResults(resp.data.results, specialty),
        error |-> NoError]

----------------------------------------------------------------------------
(* Link generator *)

\* urllib.parse.quote: letters, digits and _ . - ~ / are kept; these are the
\* percent-encodings of the other characters the inputs below can hold
PercentEncoded ==
  {[c |-> " ", hex |-> <<"%", "2", "0">>],
   [c |-> "\t", hex |-> <<"%", "0", "9">>],
   [c |-> "\n", hex |-> <<"%", "0", "A">>],
   [c |-> "(", hex |-> <<"%", "2", "8">>],
   [c |-> ")", hex |-> <<"%", "2", "9">>],
   [c |-> ",", hex |-> <<"%", "2", "C">>]}

RECURSIVE quote(_)
quote(s) ==
  IF s = <<>> THEN <<>>
  ELSE (IF \E e \in PercentEncoded : e.c = Head(s)
        THEN (CHOOSE e \in PercentEncoded : e.c = Head(s)).hex
        ELSE <<Head(s)>>) \o quote(Tail(s))

\* a faulty variant of the template's format call: query is not passed, and
\* the {query} placeholder stays in the URL
FormatWithoutQuery(template, query, lat, lon, radius_) ==
  [i \in 1..Len(template) |->
     IF template[i] = "{lat}" THEN [num |-> lat]
     ELSE IF template[i] = "{lon}" THEN [num |-> lon]
     ELSE IF template[i] = "{radius}" THEN [num |-> radius_]
     ELSE [lit |-> template[i]]]

\* template.format(query=..., lat=..., lon=..., radius=...): the literal pieces
\* and the substituted values, in order
Format(template, query, lat, lon, radius_) ==
  [i \in 1..Len(template) |->
     IF template[i] = "{query}" THEN [str |-> query]
     ELSE IF template[i] = "{lat}" THEN [num |-> lat]
     ELSE IF template[i] = "{lon}" THEN [num |-> lon]
     ELSE IF template[i] = "{radius}" THEN [num |-> radius_]
     ELSE [lit |-> template[i]]]

UrlKeys(table) == {config.key : config \in table}

Config(table, key) == CHOOSE config \in table : config.key = key

\* check_doctors.py lines 211-221
generate_bcbstx_urls(name, lat, lon, radius_) ==
  [key \in UrlKeys(BCBSTX_SEARCH_URLS) |->
     [name |-> Config(BCBSTX_SEARCH_URLS, key).name,
      url |-> Format(Config(BCBSTX_SEARCH_URLS, key).url, quote(name), lat, lon, radius_)]]

\* app.py lines 516-524
app_generate_bcbstx_urls(name, lat, lon, radius_) ==
  [key \in UrlKeys(APP_BCBSTX_SEARCH_URLS) |->
     [name |-> Config(APP_BCBSTX_SEARCH_URLS, key).name,
      url |-> Format(Config(APP_BCBSTX_SEARCH_URLS, key).url, quote(name), lat, lon, radius_)]]

\* app.py lines 527-535
generate_uhc_urls ==
  [key \in UrlKeys(UHC_SEARCH_URLS) |->
     [name |-> Config(UHC_SEARCH_URLS, key).name,
      url |-> Config(UHC_SEARCH_URLS, key).url]]

----------------------------------------------------------------------------
(* Result bundles *)

NPI_DISPLAY == 5

\* check_doctors.py lines 239-249: one displayed record
DisplayDict(r) ==
  [npi |-> r.npi, name |-> r.name, credential |-> r.credential,
   specialty |-> r.specialty,
   location |-> r.city \o <<",", " ">> \o r.state \o <<" ">> \o r.zip_code,
   phone |-> r.phone]

\* a faulty variant of check_doctor: npi_count counts the records shown
check_doctor_counting_shown(doctor, lat, lon, radius_, npi_results) ==
  [doctor |-> doctor.name,
   specialty_filter |-> doctor.specialty,
   npi_found |-> Len(npi_results) > 0,
   npi_count |-> Len(Slice(npi_results, 0, NPI_DISPLAY)),
   npi_results |-> [i \in 1..Len(Slice(npi_results, 0, NPI_DISPLAY)) |->
                      DisplayDict(npi_results[i])],
   bcbstx_urls |-> generate_bcbstx_urls(doctor.name, lat, lon, radius_)]

\* check_doctors.py lines 232-251: the dict check_doctor returns for the
\* list search_npi returned
check_doctor(doctor, lat, lon, radius_, npi_results) ==
  [doctor |-> doctor.name,
   specialty_filter |-> doctor.specialty,
   npi_found |-> Len(npi_results) > 0,
   npi_count |-> Len(npi_results),
   npi_results |-> [i \in 1..Len(Slice(npi_results, 0, NPI_DISPLAY)) |->
                      DisplayDict(npi_results[i])],
   bcbstx_urls |-> generate_bcbstx_urls(doctor.name, lat, lon, radius_)]

\* app.py lines 576-587
SearchBundle(doctor, lat, lon, radius_, npi_results) ==
  [doctor |-> doctor.name,
   specialty_filter |-> doctor.specialty,
   npi_found |-> Len(npi_results) > 0,
   npi_count |-> Len(npi_results),
   npi_results |-> Slice(npi_results, 0, NPI_DISPLAY),
   bcbstx_urls |-> app_generate_bcbstx_urls(doctor.name, lat, lon, radius_),
   uhc_urls |-> generate_uhc_urls]

----------------------------------------------------------------------------
(* The inputs drawn *)

MaxDoctors == 2

MaxResults == 6

MaxCoordFields == 2

\* comma-separated entries of the doctors text; the last is blank
EntrySamples == {<<"J", "o", "h", "n", " ", "S", "m", "i", "t", "h">>, <<"D", "o", "e", " ", "(", "f", "a", "m", "i", "l", "y", ")">>, <<" ">>}

\* the entries joined by commas (--doctors, the web parameter) or by line
\* breaks (the content of a --file)
DoctorInputs ==
  {Join(es, <<sep>>) : es \in SeqsUpTo(EntrySamples, MaxDoctors), sep \in {",", "\n"}}

\* comma-separated fields of --coords
CoordFieldSamples == {<<"-", "9", "6", ".", "7", "9", "7">>, <<"x">>}

\* args.coords (None: the flag is not given)
CoordsArgs ==
  {None} \cup {Join(fs, <<",">>) : fs \in SeqsUpTo(CoordFieldSamples, MaxCoordFields)}

\* args.location
LocationArgs == {None, <<"D", "a", "l", "l", "a", "s", ",", " ", "T", "X">>, <<"P", "a", "r", "i", "s">>}

\* args.radius (argparse has applied int; 25 is the default) and args.city
RadiusCityArgs ==
  {[radius |-> 25, city |-> None], [radius |-> 10, city |-> <<"A", "u", "s", "t", "i", "n">>]}

\* the query parameters of /search (None: the parameter is missing)
WebQueries ==
  {[location |-> None, radius |-> None, city |-> None],
   [location |-> <<"A", "u", "s", "t", "i", "n">>, radius |-> <<"1", "0">>, city |-> <<"A", "u", "s", "t", "i", "n">>],
   [location |-> <<"P", "a", "r", "i", "s">>, radius |-> None, city |-> <<" ">>],
   [location |-> <<"A", "u", "s", "t", "i", "n">>, radius |-> <<"x">>, city |-> None]}

\* the places the geocoding service can answer with
GeoBodies ==
  {<<>>,
   <<[lat |-> <<"3", "3", ".", "6", "6", "0", "9">>, lon |-> <<"-", "9", "5", ".", "5", "5", "5", "5">>]>>,
   <<[lat |-> None, lon |-> None]>>,
   <<[lat |-> <<"n", "/", "a">>, lon |-> <<"-", "9", "5", ".", "5", "5", "5", "5">>]>>}

GeoResponses ==
  {[kind |-> f, body |-> <<>>] : f \in GeoFailures}
  \cup {[kind |-> "ok", body |-> b] : b \in GeoBodies}

\* the registry's records: the i-th record of a response
TaxonomySamples ==
  << <<[primary |-> TRUE, desc |-> <<"F", "a", "m", "i", "l", "y", " ", "M", "e", "d", "i", "c", "i", "n", "e">>]>>,
     <<[primary |-> FALSE, desc |-> <<"C", "a", "r", "d", "i", "o", "l", "o", "g", "y">>],
       [primary |-> TRUE, desc |-> <<"F", "a", "m", "i", "l", "y", " ", "M", "e", "d", "i", "c", "i", "n", "e">>]>>,
     <<>>,
     <<[primary |-> FALSE, desc |-> <<"C", "a", "r", "d", "i", "o", "l", "o", "g", "y">>],
       [primary |-> FALSE, desc |-> <<"F", "a", "m", "i", "l", "y", " ", "M", "e", "d", "i", "c", "i", "n", "e">>]>>,
     <<[primary |-> TRUE, desc |-> None]>> >>

AddressSamples ==
  << <<[address_purpose |-> "MAILING", address_1 |-> <<"P", "O", " ", "B", "o", "x", " ", "1">>,
        city |-> <<"A", "u", "s", "t", "i", "n">>, state |-> <<"T", "X">>,
        postal_code |-> <<"7", "8", "7", "0", "1", "1", "2", "3", "4">>, telephone_number |-> None],
       [address_purpose |-> "LOCATION", address_1 |-> <<"1", " ", "M", "a", "i", "n", " ", "S", "t">>,
        city |-> <<"D", "a", "l", "l", "a", "s">>, state |-> <<"T", "X">>,
        postal_code |-> <<"7", "5", "2", "0", "1", "1", "2", "3", "4">>, telephone_number |-> <<"2", "1", "4", "-", "5", "5", "5", "-", "0", "1", "0", "0">>]>>,
     <<[address_purpose |-> "MAILING", address_1 |-> <<"P", "O", " ", "B", "o", "x", " ", "1">>,
        city |-> <<"A", "u", "s", "t", "i", "n">>, state |-> <<"T", "X">>,
        postal_code |-> <<"7", "8", "7", "0", "1">>, telephone_number |-> None]>>,
     <<>> >>

RegistryRecord(i) ==
  [number |-> <<"1", "2", "3", Digits[(i % 10) + 1]>>,
   basic |-> [first_name |-> <<"J", "A", "N", "E">>, last_name |-> <<"D", "O", "E">>,
              credential |-> IF i % 2 = 0 THEN None ELSE <<"M", "D">>],
   addresses |-> AddressSamples[((i - 1) % 3) + 1],
   taxonomies |-> TaxonomySamples[((i - 1) % 5) + 1]]

RegistryRecords(n) == [i \in 1..n |-> RegistryRecord(i)]

ResponseLengths == {0, NPI_DISPLAY, MaxResults}

NpiResponses ==
  {[kind |-> f, data |-> [shape |-> "none", results |-> <<>>]] : f \in NpiFailures}
  \cup {[kind |-> "ok", data |-> [shape |-> "object", results |-> RegistryRecords(n)]] :
          n \in ResponseLengths}
  \cup {[kind |-> "ok", data |-> [shape |-> "array", results |-> <<>>]]}

----------------------------------------------------------------------------
(* check_doctors.main() *)

\* sys.exit(1) after the message `e` was printed to stderr
Exit1(e) ==
  /\ pc' = "exited"
  /\ error' = e
  /\ exit_code' = <<1>>

\* an exception nothing catches: the interpreter prints the traceback and
\* ends with status 1
Uncaught(e) ==
  /\ pc' = "crashed"
  /\ error' = e
  /\ exit_code' = <<1>>

\* lines 376-385 for args.doctors / args.file as given by `mode`
MainDoctors(mode) ==
  IF mode = "file_unreadable"
  THEN [ret |-> "raise", value |-> <<>>,
        error |-> [exc |-> "OSError", msg |-> "open", arg |-> <<>>]]
  ELSE IF mode = "doctors" /\ doctor_input = <<>>
  THEN \* `if args.doctors:` is false for "", and args.file is None
       [ret |-> "raise", value |-> <<>>,
        error |-> [exc |-> "TypeError", msg |-> "open", arg |-> <<>>]]
  ELSE [ret |-> "return",
        value |-> IF mode = "doctors" THEN parse_doctors(doctor_input)
                  ELSE parse_doctors(Replace(doctor_input, <<"\n">>, <<",">>)),
        error |-> NoError]

\* lines 374-385: the arguments are read and the doctors parsed
ParseArgs ==
  /\ frontend = "cli" /\ pc = "main"
  /\ \E mode \in {"doctors", "file", "file_unreadable"}, args \in RadiusCityArgs :
       LET parsed == MainDoctors(mode)
       IN /\ radius' = args.radius
          /\ city' = args.city
          /\ IF parsed.ret = "raise"
             THEN Uncaught(parsed.error) /\ UNCHANGED doctors
             ELSE /\ doctors' = parsed.value
                  /\ IF parsed.value = <<>>
                     THEN Exit1([exc |-> "SystemExit", msg |-> "No doctors specified",
                                 arg |-> <<>>])
                     ELSE pc' = "coords" /\ UNCHANGED <<error, exit_code>>
  /\ UNCHANGED <<frontend, doctor_input, coords_arg, location, geo_query, coords, results,
                 npi_requests, npi_responses, output>>

\* line 390: whether map(float, args.coords.split(",")) unpacks into lat, lon
CoordsValid(s) ==
  LET fields == Split(s, ",")
  IN Len(fields) = 2 /\ IsFloat(fields[1]) /\ IsFloat(fields[2])

CoordsValue(s) ==
  LET fields == Split(s, ",")
  IN <<FloatValue(fields[1]), FloatValue(fields[2])>>

\* lines 387-402: the coordinates from --coords, from --location (through
\* geocode_location, up to its request) or Dallas
GetCoordinates ==
  /\ frontend = "cli" /\ pc = "coords"
  /\ \E coords_arg_ \in CoordsArgs, location_arg \in LocationArgs :
       /\ coords_arg' = coords_arg_
       /\ IF Truthy(coords_arg_)
          THEN /\ IF CoordsValid(coords_arg_)
                  THEN /\ coords' = CoordsValue(coords_arg_)
                       /\ pc' = "loop"
                       /\ UNCHANGED <<error, exit_code>>
                  ELSE /\ Exit1([exc |-> "SystemExit", msg |-> "--coords must be 'lat,lon'",
                                 arg |-> <<>>])
                       /\ UNCHANGED coords
               /\ UNCHANGED <<location, geo_query>>
          ELSE IF Truthy(location_arg)
          THEN /\ location' = location_arg
               /\ IF InTable(TEXAS_LOCATIONS, GeocodeNormalize(location_arg))
                  THEN /\ coords' = TableCoords(TEXAS_LOCATIONS, GeocodeNormalize(location_arg))
                       /\ pc' = "loop"
                       /\ UNCHANGED geo_query
                  ELSE /\ geo_query' = GeocodeQuery(location_arg)
                       /\ pc' = "geocoding"
                       /\ UNCHANGED coords
               /\ UNCHANGED <<error, exit_code>>
          ELSE /\ coords' = TableCoords(TEXAS_LOCATIONS, Str_dallas)
               /\ pc' = "loop"
               /\ UNCHANGED <<location, geo_query, error, exit_code>>
  /\ UNCHANGED <<frontend, doctor_input, doctors, radius, city, results,
                 npi_requests, npi_responses, output>>

\* check_doctors.py lines 112-121 and 396-399: the geocoding request returns
\* or fails; main catches ValueError only
GeocodeResponse ==
  /\ frontend = "cli" /\ pc = "geocoding"
  /\ \E resp \in GeoResponses :
       LET r == GeocodeResult(geo_query, resp)
       IN IF r.ret = "return"
          THEN /\ coords' = r.value
               /\ pc' = "loop"
               /\ UNCHANGED <<error, exit_code>>
          ELSE /\ IF r.error.exc = "ValueError"
                  THEN Exit1(r.error)
                  ELSE Uncaught(r.error)
               /\ UNCHANGED coords
  /\ UNCHANGED <<frontend, doctor_input, coords_arg, doctors, location, geo_query, radius,
                 city, results, npi_requests, npi_responses, output>>

\* lines 410-414 and 160-161: the next doctor's registry request is sent
CheckDoctorRequest ==
  /\ frontend = "cli" /\ pc = "loop"
  /\ Len(results) < Len(doctors)
  /\ npi_requests' =
       Append(npi_requests, NpiParams(doctors[Len(results) + 1].name, <<"T", "X">>, city))
  /\ pc' = "npi"
  /\ UNCHANGED <<frontend, doctor_input, coords_arg, doctors, location, geo_query, coords,
                 radius, city, results, npi_responses, error, exit_code, output>>

\* a faulty variant of line 415: results.insert(0, result)
ResultsPrepend(rs, result) == <<result>> \o rs

\* line 415: results.append(result)
ResultsAppend(rs, result) == Append(rs, result)

\* a faulty variant of the loop: after a failed registry request no bundle is
\* appended and the same doctor is looked up again
CheckDoctorResponseRetrying ==
  /\ frontend = "cli" /\ pc = "npi"
  /\ \E resp \in NpiResponses :
       LET doctor == doctors[Len(results) + 1]
           r == search_npi(doctor.name, <<"T", "X">>, city, doctor.specialty, resp)
       IN IF resp.kind \in NpiFailures
          THEN /\ npi_responses' = Append(npi_responses, resp)
               /\ pc' = "loop"
               /\ UNCHANGED <<results, error, exit_code>>
          ELSE IF r.ret = "return"
          THEN /\ results' = ResultsAppend(results,
                      check_doctor(doctor, coords[1], coords[2], radius, r.value))
               /\ npi_responses' = Append(npi_responses, resp)
               /\ pc' = "loop"
               /\ UNCHANGED <<error, exit_code>>
          ELSE /\ Uncaught(r.error)
               /\ npi_responses' = Append(npi_responses, resp)
               /\ UNCHANGED results
  /\ UNCHANGED <<frontend, doctor_input, coords_arg, doctors, location, geo_query, coords,
                 radius, city, npi_requests, output>>

\* lines 161-208, 232-251 and 415: the request returns or fails, and the
\* doctor's bundle is appended
CheckDoctorResponse ==
  /\ frontend = "cli" /\ pc = "npi"
  /\ \E resp \in NpiResponses :
       LET doctor == doctors[Len(results) + 1]
           r == search_npi(doctor.name, <<"T", "X">>, city, doctor.specialty, resp)
       IN IF r.ret = "return"
          THEN /\ results' = ResultsAppend(results,
                      check_doctor(doctor, coords[1], coords[2], radius, r.value))
               /\ npi_responses' = Append(npi_responses, resp)
               /\ pc' = "loop"
               /\ UNCHANGED <<error, exit_code>>
          ELSE /\ Uncaught(r.error)
               /\ npi_responses' = Append(npi_responses, resp)
               /\ UNCHANGED results
  /\ UNCHANGED <<frontend, doctor_input, coords_arg, doctors, location, geo_query, coords,
                 radius, city, npi_requests, output>>

\* a faulty variant of lines 409-421: the loop is left at the first doctor
\* whose registry request failed, and what was gathered is printed
OutputAtFirstFailure ==
  /\ frontend = "cli" /\ pc = "loop"
  /\ \/ Len(results) = Len(doctors)
     \/ /\ npi_responses # <<>>
        /\ npi_responses[Len(npi_responses)].kind \in NpiFailures
  /\ output' = "results"
  /\ pc' = "done"
  /\ exit_code' = <<0>>
  /\ UNCHANGED <<frontend, doctor_input, coords_arg, doctors, location, geo_query, coords,
                 radius, city, results, npi_requests, npi_responses, error>>

\* lines 417-421: the results are printed (as JSON with --json, as the text
\* report without) and main returns
Output ==
  /\ frontend = "cli" /\ pc = "loop"
  /\ Len(results) = Len(doctors)
  /\ output' = "results"
  /\ pc' = "done"
  /\ exit_code' = <<0>>
  /\ UNCHANGED <<frontend, doctor_input, coords_arg, doctors, location, geo_query, coords,
                 radius, city, results, npi_requests, npi_responses, error>>

----------------------------------------------------------------------------
(* app.search() *)

\* a faulty variant of app.py line 562: the location is not lower-cased
AppSearchCaseSensitive ==
  /\ frontend = "web" /\ pc = "search"
  /\ \E query \in WebQueries :
       LET location_param == query.location
           radius_param == query.radius
           city_param == query.city
           loc == GetOr(location_param, Str_dallas)
           stripped == Strip(GetOr(city_param, <<>>))
       IN /\ location' = loc
          /\ IF radius_param # None /\ ~IsInt(radius_param)
             THEN /\ pc' = "crashed"
                  /\ error' = [exc |-> "ValueError", msg |-> "invalid literal for int()",
                               arg |-> radius_param]
                  /\ UNCHANGED <<radius, city, coords, doctors>>
             ELSE /\ radius' = IF radius_param = None THEN 25 ELSE IntValue(radius_param)
                  /\ city' = IF stripped = <<>> THEN None ELSE stripped
                  /\ coords' = IF InTable(APP_TEXAS_LOCATIONS, loc)
                               THEN TableCoords(APP_TEXAS_LOCATIONS, loc)
                               ELSE TableCoords(APP_TEXAS_LOCATIONS, Str_dallas)
                  /\ doctors' = app_parse_doctors(doctor_input)
                  /\ pc' = "loop"
                  /\ UNCHANGED error
  /\ UNCHANGED <<frontend, doctor_input, coords_arg, geo_query, results, npi_requests,
                 npi_responses, exit_code, output>>

\* app.py lines 561-568: the parameters are read, the location looked up and
\* the doctors parsed
AppSearch ==
  /\ frontend = "web" /\ pc = "search"
  /\ \E query \in WebQueries :
       LET location_param == query.location
           radius_param == query.radius
           city_param == query.city
           loc == Lower(GetOr(location_param, Str_dallas))
           stripped == Strip(GetOr(city_param, <<>>))
       IN /\ location' = loc
          /\ IF radius_param # None /\ ~IsInt(radius_param)
             THEN /\ pc' = "crashed"
                  /\ error' = [exc |-> "ValueError", msg |-> "invalid literal for int()",
                               arg |-> radius_param]
                  /\ UNCHANGED <<radius, city, coords, doctors>>
             ELSE /\ radius' = IF radius_param = None THEN 25 ELSE IntValue(radius_param)
                  /\ city' = IF stripped = <<>> THEN None ELSE stripped
                  /\ coords' = IF InTable(APP_TEXAS_LOCATIONS, loc)
                               THEN TableCoords(APP_TEXAS_LOCATIONS, loc)
                               ELSE TableCoords(APP_TEXAS_LOCATIONS, Str_dallas)
                  /\ doctors' = app_parse_doctors(doctor_input)
                  /\ pc' = "loop"
                  /\ UNCHANGED error
  /\ UNCHANGED <<frontend, doctor_input, coords_arg, geo_query, results, npi_requests,
                 npi_responses, exit_code, output>>

\* app.py lines 571-574 and 476-477
AppSearchRequest ==
  /\ frontend = "web" /\ pc = "loop"
  /\ Len(results) < Len(doctors)
  /\ npi_requests' =
       Append(npi_requests, NpiParams(doctors[Len(results) + 1].name, <<"T", "X">>, city))
  /\ pc' = "npi"
  /\ UNCHANGED <<frontend, doctor_input, coords_arg, doctors, location, geo_query, coords,
                 radius, city, results, npi_responses, error, exit_code, output>>

\* app.py lines 477-513 and 576-587
AppSearchResponse ==
  /\ frontend = "web" /\ pc = "npi"
  /\ \E resp \in NpiResponses :
       LET doctor == doctors[Len(results) + 1]
           r == app_search_npi(doctor.name, <<"T", "X">>, city, doctor.specialty, resp)
       IN /\ results' = Append(results,
                 SearchBundle(doctor, coords[1], coords[2], radius, r.value))
          /\ npi_responses' = Append(npi_responses, resp)
  /\ pc' = "loop"
  /\ UNCHANGED <<frontend, doctor_input, coords_arg, doctors, location, geo_query, coords,
                 radius, city, npi_requests, error, exit_code, output>>

\* app.py line 589
AppJsonify ==
  /\ frontend = "web" /\ pc = "loop"
  /\ Len(results) = Len(doctors)
  /\ output' = "results"
  /\ pc' = "done"
  /\ UNCHANGED <<frontend, doctor_input, coords_arg, doctors, location, geo_query, coords,
                 radius, city, results, npi_requests, npi_responses, error, exit_code>>

----------------------------------------------------------------------------
(* One invocation of either front end *)

Init ==
  /\ frontend \in {"cli", "web"}
  /\ pc = IF frontend = "cli" THEN "main" ELSE "search"
  /\ doctor_input \in DoctorInputs
  /\ doctors = <<>>
  /\ coords_arg = None
  /\ location = None
  /\ geo_query = None
  /\ coords = <<>>
  /\ radius = 25
  /\ city = None
  /\ results = <<>>
  /\ npi_requests = <<>>
  /\ npi_responses = <<>>
  /\ error = NoError
  /\ exit_code = <<>>
  /\ output = "none"

Next ==
  \/ ParseArgs
  \/ GetCoordinates
  \/ GeocodeResponse
  \/ CheckDoctorRequest
  \/ CheckDoctorResponse
  \/ Output
  \/ AppSearch
  \/ AppSearchRequest
  \/ AppSearchResponse
  \/ AppJsonify

Spec == Init /\ [][Next]_vars

----------------------------------------------------------------------------
(* parse_doctors alone, on every short text *)

MaxInputLen == 6

ParseChars == {"a", " ", ",", "(", ")"}

InitParse ==
  /\ frontend \in {"cli", "web"}
  /\ pc = "parse_doctors"
  /\ doctor_input \in SeqsUpTo(ParseChars, MaxInputLen)
  /\ doctors = <<>>
  /\ coords_arg = None
  /\ location = None
  /\ geo_query = None
  /\ coords = <<>>
  /\ radius = 25
  /\ city = None
  /\ results = <<>>
  /\ npi_requests = <<>>
  /\ npi_responses = <<>>
  /\ error = NoError
  /\ exit_code = <<>>
  /\ output = "none"

ParseDoctorsCall ==
  /\ pc = "parse_doctors"
  /\ doctors' = IF frontend = "cli" THEN parse_doctors(doctor_input)
                ELSE app_parse_doctors(doctor_input)
  /\ pc' = "parsed"
  /\ UNCHANGED <<frontend, doctor_input, coords_arg, location, geo_query, coords,
                 radius, city, results, npi_requests, npi_responses, error,
                 exit_code, output>>

SpecParse == InitParse /\ [][ParseDoctorsCall]_vars

----------------------------------------------------------------------------
(* geocode_location alone, on location strings built around the table's keys *)

MaxSuffixes == 2

UpperChar(c) ==
  IF \E i \in 1..26 : LowerCase[i] = c
  THEN UpperCase[CHOOSE i \in 1..26 : LowerCase[i] = c]
  ELSE c

Upper(s) == [i \in 1..Len(s) |-> UpperChar(s[i])]

Capitalize(s) == [i \in 1..Len(s) |-> IF i = 1 THEN UpperChar(s[i]) ELSE s[i]]

TableKeys == {e.key : e \in TEXAS_LOCATIONS}

\* the table's keys in three spellings, and places the table does not hold
LocationBodies ==
  TableKeys \cup {Upper(k) : k \in TableKeys} \cup {Capitalize(k) : k \in TableKeys}
  \cup {<<"P", "a", "r", "i", "s">>, <<"d", "a", "l", "l", "a", "s", " ", "c", "o", "u", "n", "t", "y">>, <<"T", "e", "x", "a", "r", "k", "a", "n", "a">>, <<"7", "9", "9", "3", "6">>}

SuffixSamples ==
  {<<",", " ", "t", "x">>, <<" ", "t", "x">>, <<",", " ", "t", "e", "x", "a", "s">>, <<" ", "t", "e", "x", "a", "s">>, <<",", "T", "X">>, <<" ">>}

RECURSIVE Concat(_)
Concat(parts) == IF parts = <<>> THEN <<>> ELSE Head(parts) \o Concat(Tail(parts))

GeoLocations ==
  {pre \o body \o Concat(sufs) :
     pre \in {<<>>, <<" ">>}, body \in LocationBodies,
     sufs \in SeqsUpTo(SuffixSamples, MaxSuffixes)}

InitGeo ==
  /\ frontend = "cli"
  /\ pc = "geocode_location"
  /\ location \in GeoLocations
  /\ doctor_input = <<>>
  /\ doctors = <<>>
  /\ coords_arg = None
  /\ geo_query = None
  /\ coords = <<>>
  /\ radius = 25
  /\ city = None
  /\ results = <<>>
  /\ npi_requests = <<>>
  /\ npi_responses = <<>>
  /\ error = NoError
  /\ exit_code = <<>>
  /\ output = "none"

\* check_doctors.py lines 97-113: the table is consulted, and on a miss the
\* geocoding request is sent
GeocodeLocationCall ==
  /\ pc = "geocode_location"
  /\ IF InTable(TEXAS_LOCATIONS, GeocodeNormalize(location))
     THEN /\ coords' = TableCoords(TEXAS_LOCATIONS, GeocodeNormalize(location))
          /\ pc' = "returned"
          /\ UNCHANGED geo_query
     ELSE /\ geo_query' = GeocodeQuery(location)
          /\ pc' = "geocoding_alone"
          /\ UNCHANGED coords
  /\ UNCHANGED <<frontend, doctor_input, doctors, coords_arg, location, radius,
                 city, results, npi_requests, npi_responses, error, exit_code, output>>

\* check_doctors.py lines 113-121: the request returns or fails
GeocodeLocationResponse ==
  /\ pc = "geocoding_alone"
  /\ \E resp \in GeoResponses :
       LET r == GeocodeResult(geo_query, resp)
       IN IF r.ret = "return"
          THEN coords' = r.value /\ pc' = "returned" /\ UNCHANGED error
          ELSE error' = r.error /\ pc' = "raised" /\ UNCHANGED coords
  /\ UNCHANGED <<frontend, doctor_input, doctors, coords_arg, location, geo_query,
                 radius, city, results, npi_requests, npi_responses, exit_code, output>>

NextGeo == GeocodeLocationCall \/ GeocodeLocationResponse

SpecGeo == InitGeo /\ [][NextGeo]_vars

----------------------------------------------------------------------------
(* Properties *)

Failed(i) == npi_responses[i].kind \in NpiFailures

\* what the front end's search_npi returns for doctor i and the answer resp
ReturnedFor(i, resp) ==
  IF frontend = "cli"
  THEN search_npi(doctors[i].name, <<"T", "X">>, city, doctors[i].specialty, resp).value
  ELSE app_search_npi(doctors[i].name, <<"T", "X">>, city, doctors[i].specialty, resp).value

\* the links the front end generates for doctor i
LinksFor(i) ==
  IF frontend = "cli"
  THEN generate_bcbstx_urls(doctors[i].name, coords[1], coords[2], radius)
  ELSE app_generate_bcbstx_urls(doctors[i].name, coords[1], coords[2], radius)

ZeroMatches == [kind |-> "ok", data |-> [shape |-> "object", results |-> <<>>]]

\* C1: the results are, at every moment, the bundles of the first doctors of
\* the parsed sequence, one each and in its order (the i-th bundle carries
\* the i-th doctor's name and specialty, equal doctors included), and once
\* the results are emitted there is one bundle for every parsed doctor.
C1_OneBundlePerDoctorInOrder ==
  /\ Len(results) <= Len(doctors)
  /\ \A i \in 1..Len(results) :
       /\ results[i].doctor = doctors[i].name
       /\ results[i].specialty_filter = doctors[i].specialty
  /\ output = "results" => Len(results) = Len(doctors)

C1_DuplicateDoctorsEmitted ==
  /\ output = "results"
  /\ Len(doctors) = 2
  /\ doctors[1] = doctors[2]
  /\ Len(results) = 2

\* C2: in every bundle npi_found says whether the list search_npi returned
\* for that doctor is non-empty, npi_count is that list's full length, and
\* npi_results are its first min(5, npi_count) records in order; an empty
\* registry answer gives false, 0 and no records.
C2_BundleSummarisesRegistryList ==
  \A i \in 1..Len(results) :
    LET list == ReturnedFor(i, npi_responses[i])
        b == results[i]
    IN /\ b.npi_found = (list # <<>>)
       /\ b.npi_count = Len(list)
       /\ Len(b.npi_results) = IF Len(list) < 5 THEN Len(list) ELSE 5
       /\ \A j \in 1..Len(b.npi_results) :
            /\ b.npi_results[j].npi = list[j].npi
            /\ b.npi_results[j].name = list[j].name
            /\ b.npi_results[j].credential = list[j].credential
            /\ b.npi_results[j].specialty = list[j].specialty
            /\ b.npi_results[j].phone = list[j].phone
       /\ npi_responses[i] = ZeroMatches =>
            ~b.npi_found /\ b.npi_count = 0 /\ b.npi_results = <<>>

C2_MoreThanFiveFound ==
  \E i \in 1..Len(results) :
    /\ results[i].npi_found
    /\ results[i].npi_count > 5
    /\ Len(results[i].npi_results) = 5

\* C3: a registry request that times out, cannot connect or gets a non-2xx
\* status makes search_npi return the empty list: the call returns (the
\* doctor's bundle is appended, nothing is raised) and the bundle is the one
\* a successful answer with zero matches gives.
C3_TransportErrorIsEmptyList ==
  \A i \in 1..Len(npi_responses) :
    Failed(i) =>
      /\ Len(results) >= i
      /\ ReturnedFor(i, npi_responses[i]) = <<>>
      /\ results[i] = (IF frontend = "cli"
                       THEN check_doctor(doctors[i], coords[1], coords[2], radius,
                                         ReturnedFor(i, ZeroMatches))
                       ELSE SearchBundle(doctors[i], coords[1], coords[2], radius,
                                         ReturnedFor(i, ZeroMatches)))

C3_EachTransportErrorSeen ==
  /\ frontend = "cli"
  /\ Len(results) = 2
  /\ npi_responses[1].kind = "timeout"
  /\ npi_responses[2].kind = "http_error"
  /\ results[2].npi_count = 0

\* C4: after a failed registry request for doctor i the invocation goes on:
\* the bundle of doctor i is there with npi_found false, npi_count 0 and its
\* links, the request for doctor i+1 has been issued or is the next step,
\* and the emitted results hold a bundle for every doctor.
C4_FailureDoesNotAbort ==
  /\ \A i \in 1..Len(npi_responses) :
       Failed(i) =>
         /\ Len(results) >= i
         /\ ~results[i].npi_found
         /\ results[i].npi_count = 0
         /\ results[i].bcbstx_urls = LinksFor(i)
         /\ DOMAIN results[i].bcbstx_urls = {"blue_advantage_hmo", "my_blue_health"}
         /\ i < Len(doctors) =>
              Len(npi_requests) > i \/ (pc = "loop" /\ Len(results) = i)
  /\ output = "results" =>
       Len(results) = Len(doctors) /\ Len(npi_requests) = Len(doctors)

C4_LaterDoctorFoundAfterFailure ==
  /\ output = "results"
  /\ Len(doctors) = 2
  /\ npi_responses[1].kind = "connection_error"
  /\ npi_responses[2].kind = "ok"
  /\ ~results[1].npi_found
  /\ results[2].npi_found

\* the three conditions of C5, as the state shows them
NoDoctorsParsed == pc # "main" /\ doctors = <<>>

CoordsNotAPair == coords_arg # None /\ ~CoordsValid(coords_arg)

LocationResolutionFailed ==
  geo_query # None /\ pc # "geocoding" /\ coords = <<>>

\* C5: a command-line invocation whose doctors input parses to no doctor,
\* whose --coords is not a valid 'lat,lon' pair or whose location cannot be
\* resolved has ended with exit code 1, has issued no registry request and
\* has emitted no results.
C5_FatalInputExitsBeforeRegistry ==
  (frontend = "cli"
   /\ (NoDoctorsParsed \/ CoordsNotAPair \/ LocationResolutionFailed)) =>
    /\ exit_code = <<1>>
    /\ npi_requests = <<>>
    /\ output = "none"

\* the four state suffixes of C6
StateSuffixes == {<<",", " ", "t", "x">>, <<" ", "t", "x">>, <<",", " ", "t", "e", "x", "a", "s">>, <<" ", "t", "e", "x", "a", "s">>}

EndsWith(s, suf) ==
  Len(s) >= Len(suf) /\ SubSeq(s, Len(s) - Len(suf) + 1, Len(s)) = suf

\* the table keys loc normalizes to: lower-cased and trimmed, with one state
\* suffix (or none) removed from its end, and trimmed again
NormalizesTo(loc) ==
  LET t == Strip(Lower(loc))
      stripped == {Strip(SubSeq(t, 1, Len(t) - Len(suf))) :
                     suf \in {x \in StateSuffixes \cup {<<>>} : EndsWith(t, x)}}
  IN stripped \cap TableKeys

\* C6: a location that normalizes to a key of the static table makes
\* geocode_location return that key's coordinates at once, with no geocoding
\* request issued.
C6_TableHitReturnsWithoutRequest ==
  (pc # "geocode_location" /\ NormalizesTo(location) # {}) =>
    /\ pc = "returned"
    /\ geo_query = None
    /\ \A k \in NormalizesTo(location) : coords = TableCoords(TEXAS_LOCATIONS, k)

C6_SuffixedUpperCaseKeyResolved ==
  /\ pc = "returned"
  /\ geo_query = None
  /\ location = <<" ">> \o <<"F", "O", "R", "T", " ", "W", "O", "R", "T", "H">> \o <<" ">> \o <<",", " ", "t", "e", "x", "a", "s">>
  /\ coords = <<327555, -973308>>

\* C7: when the geocoding request fails or finds nothing, the error raised
\* carries the location string the caller passed in.
C7_ErrorCarriesOriginalLocation ==
  (pc = "raised" /\ error.msg = "Could not geocode") => error.arg = location

\* C8: whatever the geocoding request comes to, geocode_location either
\* returns coordinates or raises the could-not-geocode error, and nothing else.
C8_OnlyLocationNotFoundRaised ==
  /\ pc = "returned" => Len(coords) = 2
  /\ pc = "raised" => error.exc = "ValueError" /\ error.msg = "Could not geocode"

\* the comma-separated entries of a text, by the positions of its commas
CommaPositions(s) == {i \in 1..Len(s) : s[i] = ","}

KthSmallest(S, k) == CHOOSE x \in S : Cardinality({y \in S : y < x}) = k - 1

EntryAt(s, k) ==
  LET commas == CommaPositions(s)
      from == IF k = 1 THEN 1 ELSE KthSmallest(commas, k - 1) + 1
      to == IF k = Cardinality(commas) + 1 THEN Len(s) ELSE KthSmallest(commas, k) - 1
  IN SubSeq(s, from, to)

NonBlankEntries(s) ==
  {k \in 1..(Cardinality(CommaPositions(s)) + 1) :
     \E i \in 1..Len(EntryAt(s, k)) : EntryAt(s, k)[i] \notin Whitespace}

\* the j-th non-blank entry, trimmed
TrimmedEntry(s, j) == Strip(EntryAt(s, KthSmallest(NonBlankEntries(s), j)))

HasBothParens(e) ==
  (\E i \in 1..Len(e) : e[i] = "(") /\ (\E i \in 1..Len(e) : e[i] = ")")

FirstAt(e, c) == SetMin({i \in 1..Len(e) : e[i] = c})

\* C9: parse_doctors gives one Doctor per non-blank comma-separated entry,
\* in the order of the entries: the j-th Doctor comes from the j-th non-blank
\* entry (its name is the trimmed entry, or the trimmed text before the '('
\* of an entry with parentheses), and equal entries give equal Doctors, each
\* kept.
C9_OneDoctorPerNonBlankEntry ==
  pc = "parsed" =>
    /\ Len(doctors) = Cardinality(NonBlankEntries(doctor_input))
    /\ \A j \in 1..Len(doctors) :
         LET e == TrimmedEntry(doctor_input, j)
         IN IF HasBothParens(e)
            THEN doctors[j].name = Strip(SubSeq(e, 1, FirstAt(e, "(") - 1))
            ELSE doctors[j].name = e /\ doctors[j].specialty = None

C9_BlankSkippedDuplicateKept ==
  /\ pc = "parsed"
  /\ doctor_input = <<"a", ",", " ", ",", "a", ",">>
  /\ doctors = <<[name |-> <<"a">>, specialty |-> None],
                 [name |-> <<"a">>, specialty |-> None]>>

\* the closing parenthesis of the first pair: the first ')' after the first
\* '(' (0: every ')' stands before the first '(')
PairClose(e) ==
  LET after == {i \in 1..Len(e) : e[i] = ")" /\ i > FirstAt(e, "(")}
  IN IF after = {} THEN 0 ELSE SetMin(after)

\* C10: an entry with both '(' and ')' is split at its first parenthesis
\* pair: the name is the trimmed text before the first '(' and the specialty
\* the trimmed text between that '(' and the ')' closing it, whatever other
\* parentheses the entry holds (no text where no ')' follows the '('), so
\* that nothing after the closing parenthesis is kept; any other entry is
\* the name, with no specialty.
C10_SplitAtFirstParenthesisPair ==
  pc = "parsed" =>
    \A j \in 1..Len(doctors) :
      LET e == TrimmedEntry(doctor_input, j)
      IN IF HasBothParens(e)
         THEN /\ doctors[j].name = Strip(SubSeq(e, 1, FirstAt(e, "(") - 1))
              /\ doctors[j].specialty =
                   IF PairClose(e) = 0 THEN <<>>
                   ELSE Strip(SubSeq(e, FirstAt(e, "(") + 1, PairClose(e) - 1))
         ELSE doctors[j].name = e /\ doctors[j].specialty = None

----------------------------------------------------------------------------
(* Link sets, coordinates and the two front ends *)

\* the configured BCBSTX table of the front end that runs
ConfiguredBcbstx ==
  IF frontend = "cli" THEN BCBSTX_SEARCH_URLS ELSE APP_BCBSTX_SEARCH_URLS

\* what a piece of a URL template stands for once the doctor's name, the
\* coordinates and the radius have been put in
Substituted(piece, i) ==
  IF piece = "{query}" THEN [str |-> quote(doctors[i].name)]
  ELSE IF piece = "{lat}" THEN [num |-> coords[1]]
  ELSE IF piece = "{lon}" THEN [num |-> coords[2]]
  ELSE IF piece = "{radius}" THEN [num |-> radius]
  ELSE [lit |-> piece]

\* C11: every bundle's BCBSTX link set has exactly the configured provider
\* keys, each with the configured label and the configured template in which
\* the name, latitude, longitude and radius placeholders are substituted; and
\* every bundle of the web front end carries the configured UHC table
\* verbatim (same keys, labels and URLs), whatever the doctor, coordinates,
\* radius or registry outcome.
C11_LinkSetsMatchConfiguration ==
  \A i \in 1..Len(results) :
    /\ DOMAIN results[i].bcbstx_urls = UrlKeys(ConfiguredBcbstx)
    /\ \A config \in ConfiguredBcbstx :
         /\ results[i].bcbstx_urls[config.key].name = config.name
         /\ Len(results[i].bcbstx_urls[config.key].url) = Len(config.url)
         /\ \A k \in 1..Len(config.url) :
              results[i].bcbstx_urls[config.key].url[k] = Substituted(config.url[k], i)
    /\ frontend = "web" =>
         /\ DOMAIN results[i].uhc_urls = UrlKeys(UHC_SEARCH_URLS)
         /\ \A config \in UHC_SEARCH_URLS :
              results[i].uhc_urls[config.key] = [name |-> config.name, url |-> config.url]

C11_SameUhcLinksForDifferentSearches ==
  /\ frontend = "web"
  /\ output = "results"
  /\ Len(results) = 2
  /\ results[1].doctor # results[2].doctor
  /\ results[1].npi_found /\ ~results[2].npi_found
  /\ results[1].bcbstx_urls # results[2].bcbstx_urls
  /\ results[1].uhc_urls = results[2].uhc_urls
  /\ radius = 10

\* C12: the coordinates the links of a bundle were generated with satisfy
\* latitude in [-90, 90] and longitude in [-180, 180] (in 1/10000 degrees),
\* whichever way they were obtained.
C12_CoordinatesInRange ==
  results # <<>> =>
    /\ -900000 <= coords[1] /\ coords[1] <= 900000
    /\ -1800000 <= coords[2] /\ coords[2] <= 1800000

\* the fields the bundles of the two front ends have in common
CommonFields(b) ==
  [doctor |-> b.doctor, specialty_filter |-> b.specialty_filter,
   npi_found |-> b.npi_found, npi_count |-> b.npi_count,
   npi_results |-> b.npi_results, bcbstx_urls |-> b.bcbstx_urls]

\* the outcome of each front end for doctor i and the registry answer resp
CliOutcome(i, resp) ==
  search_npi(doctors[i].name, <<"T", "X">>, city, doctors[i].specialty, resp)

WebOutcome(i, resp) ==
  app_search_npi(doctors[i].name, <<"T", "X">>, city, doctors[i].specialty, resp)

\* C13: for the doctors, city filter, radius and coordinates of the
\* invocation and each registry answer received (failures and malformed
\* answers included), both front ends produce a bundle, and the two bundles
\* have equal doctor, specialty_filter, npi_found, npi_count, npi_results and
\* bcbstx_urls.
C13_FrontEndsAgree ==
  \A i \in 1..Len(npi_responses) :
    /\ CliOutcome(i, npi_responses[i]).ret = "return"
    /\ WebOutcome(i, npi_responses[i]).ret = "return"
    /\ CommonFields(check_doctor(doctors[i], coords[1], coords[2], radius,
                                 CliOutcome(i, npi_responses[i]).value))
       = CommonFields(SearchBundle(doctors[i], coords[1], coords[2], radius,
                                   WebOutcome(i, npi_responses[i]).value))

----------------------------------------------------------------------------
(* The order of the requests *)

\* what holds of the requests issued so far
RequestsInOrder ==
  /\ Len(npi_requests) <= Len(doctors)
  /\ \A i \in 1..Len(npi_requests) :
       npi_requests[i] = NpiParams(doctors[i].name, <<"T", "X">>, city)
  /\ Len(npi_responses) <= Len(npi_requests)
  /\ Len(npi_requests) <= Len(npi_responses) + 1
  /\ npi_requests # <<>> =>
       coords # <<>> /\ pc \notin {"main", "search", "coords", "geocoding"}
  /\ output = "results" =>
       Len(npi_requests) = Len(doctors) /\ Len(npi_responses) = Len(doctors)

\* what holds of every step
OneRequestAtATime ==
  /\ pc' = "geocoding" => pc = "coords" /\ geo_query = None /\ npi_requests = <<>>
  /\ geo_query # None => geo_query' = geo_query
  /\ coords # <<>> => coords' = coords
  /\ npi_requests' # npi_requests =>
       /\ Len(npi_responses) = Len(npi_requests)
       /\ Len(npi_requests) < Len(doctors)
       /\ npi_requests' =
            Append(npi_requests,
                   NpiParams(doctors[Len(npi_requests) + 1].name, <<"T", "X">>, city))
       /\ npi_responses' = npi_responses
  /\ npi_responses' # npi_responses =>
       /\ Len(npi_requests) = Len(npi_responses) + 1
       /\ Len(npi_responses') = Len(npi_requests)
       /\ npi_requests' = npi_requests

\* C14: an invocation is strictly sequential, without retries: the location
\* is resolved once at most (one geocoding request at most) and before any
\* registry request; the registry requests are those of the parsed doctors
\* in input order, request i+1 issued only once request i has been answered
\* or has failed, none issued twice; and when the results are emitted there
\* have been exactly as many registry requests as parsed doctors.
C14_SequentialWithoutRetries ==
  []RequestsInOrder /\ [][OneRequestAtATime]_vars

C14_GeocodedOnceThenOneRequestPerDoctor ==
  /\ output = "results"
  /\ geo_query # None
  /\ Len(doctors) = 2
  /\ doctors[1] # doctors[2]
  /\ npi_responses[1].kind = "timeout"
  /\ Len(npi_requests) = 2

----------------------------------------------------------------------------
(* search_npi alone, on names built from parts *)

MaxNameParts == 3

NameParts == {<<"D", "r", ".", " ">>, <<"D", "r", " ">>, <<"J", "o", "h", "n", " ">>, <<"S", "m", "i", "t", "h">>, <<"S", "m", "i", "t", "h", ",">>, <<" ">>}

NpiNames == {Concat(parts) : parts \in SeqsUpTo(NameParts, MaxNameParts)}

\* the specialty and city arguments of a call
FilterCityArgs ==
  {[specialty |-> None, city |-> None],
   [specialty |-> <<"f", "a", "m", "i", "l", "y">>, city |-> <<"A", "u", "s", "t", "i", "n">>],
   [specialty |-> <<"C", "a", "r", "d", "i", "o", "l", "o", "g", "y">>, city |-> <<>>],
   [specialty |-> <<>>, city |-> <<"A", "u", "s", "t", "i", "n">>]}

\* doctors holds the Doctor whose name and specialty are the arguments of the
\* call, results the list `results` of search_npi
InitNpi ==
  /\ frontend \in {"cli", "web"}
  /\ pc = "search_npi"
  /\ \E name \in NpiNames, args \in FilterCityArgs :
       /\ doctors = <<[name |-> name, specialty |-> args.specialty]>>
       /\ city = args.city
  /\ doctor_input = <<>>
  /\ coords_arg = None
  /\ location = None
  /\ geo_query = None
  /\ coords = <<>>
  /\ radius = 25
  /\ results = <<>>
  /\ npi_requests = <<>>
  /\ npi_responses = <<>>
  /\ error = NoError
  /\ exit_code = <<>>
  /\ output = "none"

\* check_doctors.py lines 133-161, app.py lines 449-477: the name is split
\* and the request sent
SearchNpiRequest ==
  /\ pc = "search_npi"
  /\ npi_requests' = <<NpiParams(doctors[1].name, <<"T", "X">>, city)>>
  /\ pc' = "npi_alone"
  /\ UNCHANGED <<frontend, doctor_input, coords_arg, doctors, location, geo_query, coords,
                 radius, city, results, npi_responses, error, exit_code, output>>

\* check_doctors.py lines 161-208, app.py lines 477-513: the request returns
\* or fails
SearchNpiResponse ==
  /\ pc = "npi_alone"
  /\ \E resp \in NpiResponses :
       LET r == IF frontend = "cli"
                THEN search_npi(doctors[1].name, <<"T", "X">>, city, doctors[1].specialty, resp)
                ELSE app_search_npi(doctors[1].name, <<"T", "X">>, city, doctors[1].specialty, resp)
       IN /\ npi_responses' = <<resp>>
          /\ IF r.ret = "return"
             THEN results' = r.value /\ pc' = "npi_returned" /\ UNCHANGED error
             ELSE error' = r.error /\ pc' = "npi_raised" /\ UNCHANGED results
  /\ UNCHANGED <<frontend, doctor_input, coords_arg, doctors, location, geo_query, coords,
                 radius, city, npi_requests, exit_code, output>>

NextNpi == SearchNpiRequest \/ SearchNpiResponse

SpecNpi == InitNpi /\ [][NextNpi]_vars

----------------------------------------------------------------------------
(* Name splitting and the specialty filter *)

\* the name with every "Dr." and then every "Dr" taken out, trimmed
WithoutTitle(name) ==
  Strip(Replace(Replace(name, <<"D", "r", ".">>, <<>>), <<"D", "r">>, <<>>))

\* the whitespace-separated tokens of s, by the positions where they start
TokenStarts(s) ==
  {i \in 1..Len(s) : s[i] \notin Whitespace /\ (i = 1 \/ s[i - 1] \in Whitespace)}

TokenFrom(s, i) ==
  SubSeq(s, i, SetMin({j \in i..Len(s) : j = Len(s) \/ s[j + 1] \in Whitespace}))

Token(s, k) == TokenFrom(s, KthSmallest(TokenStarts(s), k))

RECURSIVE TokensJoined(_, _)
\* the tokens from the k-th on, with one space between them
TokensJoined(s, k) ==
  IF k > Cardinality(TokenStarts(s)) THEN <<>>
  ELSE IF k = Cardinality(TokenStarts(s)) THEN Token(s, k)
  ELSE Token(s, k) \o <<" ">> \o TokensJoined(s, k + 1)

\* first and last name by the rule of C15
FirstOf(name) ==
  LET n == WithoutTitle(name)
  IN IF \E i \in 1..Len(n) : n[i] = ","
     THEN Strip(SubSeq(n, FirstAt(n, ",") + 1, Len(n)))
     ELSE IF Cardinality(TokenStarts(n)) >= 2 THEN Token(n, 1)
     ELSE <<>>

LastOf(name) ==
  LET n == WithoutTitle(name)
  IN IF \E i \in 1..Len(n) : n[i] = ","
     THEN Strip(SubSeq(n, 1, FirstAt(n, ",") - 1))
     ELSE IF Cardinality(TokenStarts(n)) >= 2 THEN TokensJoined(n, 2)
     ELSE n

\* C15: with "Dr."/"Dr" removed, a name with a comma gives last = the text
\* before the first comma and first = the text after it; otherwise a name
\* of two or more tokens gives first = the first token and last = the other
\* tokens joined by a space, and a name of one token first = "" and last =
\* the token; the request carries first_name, last_name and city only when
\* the value is non-empty.
C15_NameSplitIntoFirstAndLast ==
  pc # "search_npi" =>
    /\ Len(npi_requests) = 1
    /\ npi_requests[1].first_name =
         (IF FirstOf(doctors[1].name) = <<>> THEN None ELSE FirstOf(doctors[1].name))
    /\ npi_requests[1].last_name =
         (IF LastOf(doctors[1].name) = <<>> THEN None ELSE LastOf(doctors[1].name))
    /\ npi_requests[1].city = (IF city = None \/ city = <<>> THEN None ELSE city)

C15_LastCommaFirstSplit ==
  /\ pc = "npi_alone"
  /\ doctors[1].name = <<"S", "m", "i", "t", "h", ",", " ", "J", "o", "h", "n", " ">>
  /\ npi_requests[1].first_name = <<"J", "o", "h", "n">>
  /\ npi_requests[1].last_name = <<"S", "m", "i", "t", "h">>
  /\ city = <<>>
  /\ npi_requests[1].city = None

\* the specialty description of a record by the rule of C16
Description(taxonomies) ==
  LET flagged == {i \in 1..Len(taxonomies) : taxonomies[i].primary}
      selected == IF flagged # {} THEN SetMin(flagged) ELSE 1
  IN IF taxonomies = <<>> \/ taxonomies[selected].desc = None
     THEN <<"U", "n", "k", "n", "o", "w", "n">>
     ELSE taxonomies[selected].desc

ContainsIgnoringCase(text, part) ==
  \E offset \in 0..(Len(text) - Len(part)) :
    \A k \in 1..Len(part) : LowerChar(text[offset + k]) = LowerChar(part[k])

\* the positions of the records the filter keeps
KeptRecords(records, filter) ==
  {i \in 1..Len(records) :
     filter = None \/ ContainsIgnoringCase(Description(records[i].taxonomies), filter)}

\* C16: for a successful registry answer search_npi returns, in the order of
\* the answer, exactly the records whose specialty description contains the
\* filter as a case-insensitive substring (every record without a filter),
\* the description being that of the first taxonomy flagged primary, else of
\* the first taxonomy, and "Unknown" when the selected taxonomy has none.
C16_FilterKeepsMatchingRecordsInOrder ==
  (/\ pc = "npi_returned"
   /\ npi_responses[1].kind = "ok"
   /\ npi_responses[1].data.shape = "object") =>
    LET records == npi_responses[1].data.results
        kept == KeptRecords(records, doctors[1].specialty)
    IN /\ Len(results) = Cardinality(kept)
       /\ \A j \in 1..Len(results) :
            /\ results[j].npi = records[KthSmallest(kept, j)].number
            /\ results[j].specialty = Description(records[KthSmallest(kept, j)].taxonomies)

C16_FamilyFilterKeepsFamilyMedicine ==
  /\ pc = "npi_returned"
  /\ doctors[1].specialty = <<"f", "a", "m", "i", "l", "y">>
  /\ Len(npi_responses[1].data.results) = 6
  /\ Len(results) = 3
  /\ results[3].npi = npi_responses[1].data.results[6].number
  /\ \A j \in 1..3 :
       results[j].specialty = <<"F", "a", "m", "i", "l", "y", " ", "M", "e", "d", "i", "c", "i", "n", "e">>

----------------------------------------------------------------------------
(* An invocation on doctors texts with commas and line breaks *)

MaxInputParts == 3

InputParts == {<<"S", "m", "i", "t", "h">>, <<",">>, <<" ", "J", "o", "h", "n">>, <<"\n">>}

CommaInputs == {Concat(parts) : parts \in SeqsUpTo(InputParts, MaxInputParts)}

InitComma ==
  /\ frontend \in {"cli", "web"}
  /\ pc = IF frontend = "cli" THEN "main" ELSE "search"
  /\ doctor_input \in CommaInputs
  /\ doctors = <<>>
  /\ coords_arg = None
  /\ location = None
  /\ geo_query = None
  /\ coords = <<>>
  /\ radius = 25
  /\ city = None
  /\ results = <<>>
  /\ npi_requests = <<>>
  /\ npi_responses = <<>>
  /\ error = NoError
  /\ exit_code = <<>>
  /\ output = "none"

SpecComma == InitComma /\ [][Next]_vars

----------------------------------------------------------------------------
(* The location of the web front end *)

\* C18: /search issues no geocoding request and does not fail on the
\* location: the location is lower-cased and looked up in the web's static
\* table, a value the table does not hold (a missing parameter included)
\* gives the coordinates of Dallas, and every BCBSTX link generated uses
\* these coordinates.
C18_WebLocationFromTableOrDallas ==
  frontend = "web" =>
    /\ geo_query = None
    /\ error # NoError => error.msg = "invalid literal for int()"
    /\ pc \notin {"search", "crashed"} =>
         /\ location = Lower(location)
         /\ \/ \E e \in APP_TEXAS_LOCATIONS :
                 e.key = location /\ coords = <<e.lat, e.lon>>
            \/ /\ \A e \in APP_TEXAS_LOCATIONS : e.key # location
               /\ coords = <<327767, -967970>>
         /\ \A i \in 1..Len(results), config \in APP_BCBSTX_SEARCH_URLS :
              \A k \in 1..Len(config.url) :
                /\ config.url[k] = "{lat}" =>
                     results[i].bcbstx_urls[config.key].url[k] = [num |-> coords[1]]
                /\ config.url[k] = "{lon}" =>
                     results[i].bcbstx_urls[config.key].url[k] = [num |-> coords[2]]

C18_UnknownLocationUsesDallas ==
  /\ frontend = "web"
  /\ output = "results"
  /\ location = <<"p", "a", "r", "i", "s">>
  /\ coords = <<327767, -967970>>
  /\ results # <<>>
  /\ geo_query = None

====
